---- MODULE Spec2Model ----
(***************************************************************************)
(* Model of ABTestManager (src/src/ai-engine/services/learning-optimizer.py) *)
(* the A/B-test registry, interaction recorder, chi-square significance     *)
(* analyzer, early-stopping check, insight extractor and learning store.    *)
(*                                                                          *)
(* Scope of the model                                                       *)
(*  - experiments use primary_metric = "conversion_rate" (the default of    *)
(*    create_ab_test); the _t_test branch draws np.random samples and is    *)
(*    not modelled.                                                         *)
(*  - Python floats are modelled as exact rationals <<num, den>>, den > 0,  *)
(*    in lowest terms; rounding error is below the model's resolution.      *)
(*  - traffic_allocation is in thousandths (0.5 is 500).                    *)
(*  - datetime values are clock ticks, TicksPerDay ticks to a day;          *)
(*    timedelta.days is the floor division by TicksPerDay.                  *)
(*  - visitor counts are scaled down: _calculate_sample_size returns 6400   *)
(*    (or at least 1000) in the source and SampleSize here; the validation  *)
(*    floor 100 is SampleSizeFloor here.                                    *)
(*  - a p-value is kept as the band it falls in, decided by comparing the   *)
(*    Yates-corrected chi-square statistic (what scipy's chi2_contingency   *)
(*    computes for a 2x2 table) with the 1-dof critical values.             *)
(*  - the experiment name, description, created_at and the variants'       *)
(*    last_updated are never read by the manager and are left out.          *)
(***************************************************************************)
EXTENDS Integers, Sequences, FiniteSets, Bags, TLC

\* ---------------------------------------------------------------- bounds
\* clock resolution
TicksPerDay == 2
\* scaled result of _calculate_sample_size
SampleSize == 8
\* visitors the model records on one experiment beyond SampleSize
VisitorHeadroom == 0
\* scaled validation floor of _validate_test_configuration
SampleSizeFloor == 2

\* ------------------------------------------------------- program constants
MinimumDurationDays == 7
MaximumDurationDays == 30
\* abs(total_allocation - 1.0) > 0.01, in thousandths
AllocationTolerance == 10
\* self.significance_threshold, in ten-thousandths
SignificanceThreshold == 500

\* cap on the total visitors recorded on one experiment
MaxVisitors == SampleSize + VisitorHeadroom

None == "None"
\* an optional key of visitor_data: missing, or present with a value
Absent == [kind |-> "absent", value |-> <<0, 1>>]
Val(x) == [kind |-> "value", value |-> x]
\* an event key that is present with the value None
Null == [kind |-> "null", value |-> <<0, 1>>]
\* None in a datetime field
NoTime == 0 - 1

\* ----------------------------------------------------------- rationals
Abs(x) == IF x < 0 THEN 0 - x ELSE x

RECURSIVE GCD(_, _)
GCD(a, b) == IF b = 0 THEN a ELSE GCD(b, a % b)

\* n/d in lowest terms, d > 0
Rat(n, d) == LET g == GCD(Abs(n), d) IN <<n \div g, d \div g>>

RZero == <<0, 1>>
ROne == <<1, 1>>
RAdd(x, y) == Rat(x[1] * y[2] + y[1] * x[2], x[2] * y[2])
RSub(x, y) == Rat(x[1] * y[2] - y[1] * x[2], x[2] * y[2])
RMul(x, y) == Rat(x[1] * y[1], x[2] * y[2])
\* x / y for y > 0
RDiv(x, y) == Rat(x[1] * y[2], x[2] * y[1])
RLess(x, y) == x[1] * y[2] < y[1] * x[2]
RMax(x, y) == IF RLess(x, y) THEN y ELSE x
RMin(x, y) == IF RLess(y, x) THEN y ELSE x

\* ------------------------------------------------------------ enums
PLANNING == "planning"
RUNNING == "running"
COMPLETED == "completed"
PAUSED == "paused"
CANCELLED == "cancelled"
TestStatus == {PLANNING, RUNNING, COMPLETED, PAUSED, CANCELLED}

\* SignificanceLevel values, in ten-thousandths
SignificanceLevel == {100, 500, 1000}

\* p-value bands: the p-value is below 0.01, in [0.01, 0.05), in
\* [0.05, 0.1), at least 0.1 (and below 1), or the failure value 1.0
PBands == {"p<0.01", "0.01<=p<0.05", "0.05<=p<0.1", "p>=0.1", "p=1.0"}

\* ------------------------------------------------------------ inputs
TestIds == {"t1"}
\* a second experiment, for the specifications with two experiments
SecondTestId == "t2"
UnknownTestId == "t0"
VariantIds == {"control", "test_v1"}
\* the ids the API gives to the treatments of a request, in order
TreatmentIds == <<"test_v1", "test_v2">>
UnknownVariantId == "test_v9"

\* the clock readings the environment produces
ClockPoints == {0, MinimumDurationDays * TicksPerDay - 1,
                MinimumDurationDays * TicksPerDay,
                MaximumDurationDays * TicksPerDay}

\* content / design payloads: key -> value, keys listed in insertion order
KeyOrder == <<"headline", "cta_text", "color_scheme", "layout">>
ControlContent == [k \in {"headline"} |-> "Original Headline"]
TreatmentContent == [k \in {"headline", "cta_text"} |->
                       IF k = "headline" THEN "Improved Headline" ELSE "Get Started Now"]
ControlDesign == [k \in {"layout"} |-> "standard"]
TreatmentDesign == [k \in {"layout"} |-> "standard"]

\* TestVariant(...) with the dataclass defaults
TestVariant(variant_id, traffic_allocation, content, design) ==
    [variant_id |-> variant_id,
     name |-> variant_id,
     traffic_allocation |-> traffic_allocation,
     content |-> content,
     design |-> design,
     visitors |-> 0,
     conversions |-> 0,
     conversion_rate |-> RZero,
     bounce_rate |-> RZero,
     time_on_page |-> RZero,
     scroll_depth |-> RZero,
     engagement_score |-> RZero,
     revenue |-> RZero,
     revenue_per_visitor |-> RZero]

\* the configurations callers pass to create_ab_test: the control arm's and
\* the treatment arm's traffic allocation, and the significance level
Configs == [control_allocation : {500},
            test_allocation : {500, 520},
            significance_level : {500}]

\* visitor_data of the interaction events: 'converted' only
Events == [converted : BOOLEAN,
           time_on_page : {Absent}, bounce_rate : {Absent},
           scroll_depth : {Absent}, revenue : {Absent}]

\* ------------------------------------------------------------- state
VARIABLES
    active_tests,      \* self.active_tests: test_id -> ABTest
    completed_tests,   \* self.completed_tests: test_id -> ABTest
    learned_patterns,  \* self.learned_patterns: list of LearningUpdate
    now,               \* datetime.now(), in ticks
    last,              \* the last call: operation, arguments, returned value
    status_reply,      \* what the last get_test_status call returned
    pending,           \* the calls of tasks that were created and have not run
    log                \* per variant, the successful record calls so far

vars == <<active_tests, completed_tests, learned_patterns, now, last,
          status_reply, pending, log>>

\* the variables the manager's own operations never touch
out == <<status_reply, pending, log>>

\* a returned bool, as the caller sees it
PyBool(b) == IF b THEN "True" ELSE "False"

\* dict helpers
\* "dict = {key: value}" written where "dict[key] = value" is meant
Put_Replaces(dict, key, value) == [k \in {key} |-> value]
Put(dict, key, value) == [k \in DOMAIN dict \cup {key} |-> IF k = key THEN value ELSE dict[k]]
\* "del dict[key]" left out
Del_KeepsKey(dict, key) == dict
Del(dict, key) == [k \in DOMAIN dict \ {key} |-> dict[k]]
EmptyDict == [k \in {} |-> None]


\* ------------------------------------------------ sample size planner
\* _calculate_sample_size: ttest_power is called with a keyword it does not
\* take, so the bare except returns max(2000, int(16 * (1 / effect_size) ** 2))
\* = 6400 for every alpha; scaled to SampleSize
calculate_sample_size(alpha) == SampleSize

\* --------------------------------------------------------- registry
\* create_ab_test: builds the ABTest in PLANNING and stores it in
\* active_tests under a fresh id; no validation is performed here
NewABTest(test_id, cfg) ==
    [test_id |-> test_id,
     status |-> PLANNING,
     primary_metric |-> "conversion_rate",
     significance_level |-> cfg.significance_level,
     minimum_sample_size |-> calculate_sample_size(cfg.significance_level),
     minimum_duration_days |-> MinimumDurationDays,
     maximum_duration_days |-> MaximumDurationDays,
     control_variant |-> TestVariant("control", cfg.control_allocation,
                                     ControlContent, ControlDesign),
     test_variants |-> <<TestVariant("test_v1", cfg.test_allocation,
                                     TreatmentContent, TreatmentDesign)>>,
     winner_variant_id |-> None,
     statistical_significance |-> FALSE,
     confidence_interval |-> None,
     p_value |-> None,
     effect_size |-> None,
     started_at |-> NoTime,
     ended_at |-> NoTime,
     insights |-> <<>>,
     recommendations |-> <<>>]

create_ab_test(test_id, cfg) ==
    /\ test_id \notin DOMAIN active_tests \cup DOMAIN completed_tests
    /\ active_tests' = Put(active_tests, test_id, NewABTest(test_id, cfg))
    /\ last' = [op |-> "create_ab_test", returned |-> test_id]
    /\ UNCHANGED <<completed_tests, learned_patterns, now>>

\* sum of traffic_allocation over control and test variants
RECURSIVE SumAllocation(_)
SumAllocation(variants) ==
    IF variants = <<>> THEN 0
    ELSE Head(variants).traffic_allocation + SumAllocation(Tail(variants))

total_allocation(test) ==
    test.control_variant.traffic_allocation + SumAllocation(test.test_variants)

\* _validate_test_configuration without the traffic-allocation check
validate_test_configuration_NoAllocation(test) ==
    IF test.minimum_sample_size < SampleSizeFloor THEN FALSE
    ELSE IF test.minimum_duration_days < 1 THEN FALSE
    ELSE TRUE

validate_test_configuration(test) ==
    IF Abs(total_allocation(test) - 1000) > AllocationTolerance THEN FALSE
    ELSE IF test.minimum_sample_size < SampleSizeFloor THEN FALSE
    ELSE IF test.minimum_duration_days < 1 THEN FALSE
    ELSE TRUE

\* start_test without the check of the PLANNING status
start_test_returns_NoStatusCheck(test_id) ==
    IF test_id \notin DOMAIN active_tests THEN FALSE
    ELSE IF ~validate_test_configuration(active_tests[test_id]) THEN FALSE
    ELSE TRUE

\* start_test: every raise is caught and turned into return False
start_test_returns(test_id) ==
    IF test_id \notin DOMAIN active_tests THEN FALSE
    ELSE IF active_tests[test_id].status # PLANNING THEN FALSE
    ELSE IF ~validate_test_configuration(active_tests[test_id]) THEN FALSE
    ELSE TRUE

start_test(test_id) ==
    /\ IF start_test_returns(test_id)
       THEN active_tests' = [active_tests EXCEPT
                               ![test_id].status = RUNNING,
                               ![test_id].started_at = now]
       ELSE UNCHANGED active_tests
    /\ last' = [op |-> "start_test", returned |-> PyBool(start_test_returns(test_id))]
    /\ UNCHANGED <<completed_tests, learned_patterns, now>>

\* the clock advances to a later reading
Tick ==
    /\ \E p \in ClockPoints : p > now /\ now' = p
    /\ last' = [op |-> "tick", returned |-> None]
    /\ UNCHANGED <<active_tests, completed_tests, learned_patterns>>

\* timedelta.days between two clock readings
Days(from, to) == (to - from) \div TicksPerDay


\* ------------------------------------------------------- recorder
update_running_average(current_avg, new_value, count) ==
    IF count <= 1 THEN new_value
    ELSE RDiv(RAdd(RMul(current_avg, <<count - 1, 1>>), new_value), <<count, 1>>)

calculate_engagement_score(variant) ==
    LET time_score == RMin(RDiv(variant.time_on_page, <<300, 1>>), ROne)
        bounce_score == RSub(ROne, variant.bounce_rate)
        scroll_score == variant.scroll_depth
    IN RAdd(RAdd(RMul(time_score, <<4, 10>>), RMul(bounce_score, <<3, 10>>)),
            RMul(scroll_score, <<3, 10>>))

\* lines 364-400 of record_visitor_interaction applied to the found variant
UpdatedVariant(variant, visitor_data) ==
    LET v1 == [variant EXCEPT !.visitors = @ + 1]
        v2 == IF visitor_data.converted
              THEN [v1 EXCEPT !.conversions = @ + 1,
                              !.conversion_rate = Rat(v1.conversions + 1, v1.visitors)]
              ELSE v1
        v3 == IF visitor_data.time_on_page.kind # "absent"
              THEN [v2 EXCEPT !.time_on_page =
                      update_running_average(@, visitor_data.time_on_page.value, v2.visitors)]
              ELSE v2
        v4 == IF visitor_data.bounce_rate.kind # "absent"
              THEN [v3 EXCEPT !.bounce_rate =
                      update_running_average(@,
                          IF visitor_data.bounce_rate.value # RZero THEN ROne ELSE RZero,
                          v3.visitors)]
              ELSE v3
        v5 == IF visitor_data.scroll_depth.kind # "absent"
              THEN [v4 EXCEPT !.scroll_depth =
                      update_running_average(@, visitor_data.scroll_depth.value, v4.visitors)]
              ELSE v4
        v6 == [v5 EXCEPT !.engagement_score = calculate_engagement_score(v5)]
        \* "variant.revenue += None" raises before it assigns: a null revenue
        \* leaves the variant as it is at that line
        v7 == IF visitor_data.revenue.kind = "value"
              THEN [v6 EXCEPT !.revenue = RAdd(@, visitor_data.revenue.value),
                              !.revenue_per_visitor =
                                  RDiv(RAdd(v6.revenue, visitor_data.revenue.value),
                                       <<v6.visitors, 1>>)]
              ELSE v6
    IN v7

\* "Find variant": 0 is the control, i > 0 the first test variant with the
\* id, NotFound none
NotFound == 0 - 1
FindVariant(test, variant_id) ==
    IF test.control_variant.variant_id = variant_id THEN 0
    ELSE LET hits == {i \in 1..Len(test.test_variants) :
                         test.test_variants[i].variant_id = variant_id}
         IN IF hits = {} THEN NotFound
            ELSE CHOOSE i \in hits : \A j \in hits : i <= j

WithUpdatedVariant(test, idx, visitor_data) ==
    IF idx = 0
    THEN [test EXCEPT !.control_variant = UpdatedVariant(@, visitor_data)]
    ELSE [test EXCEPT !.test_variants[idx] = UpdatedVariant(@, visitor_data)]

RECURSIVE SumVisitors(_)
SumVisitors(variants) ==
    IF variants = <<>> THEN 0
    ELSE Head(variants).visitors + SumVisitors(Tail(variants))

total_visitors(test) == test.control_variant.visitors + SumVisitors(test.test_variants)


\* ------------------------------------------------------- analyzer
\* 1-dof chi-square critical values for p = 0.1, 0.05, 0.01, times 10^4
Crit10 == 27055
Crit05 == 38415
Crit01 == 66349

\* upper end of a p-value band, in ten-thousandths (10000 stands for "1 or
\* more": no level is above it)
BandUpper(band) ==
    CASE band = "p<0.01" -> 100
      [] band = "0.01<=p<0.05" -> 500
      [] band = "0.05<=p<0.1" -> 1000
      [] OTHER -> 10000

\* p_value < level, for a level in SignificanceLevel
PValueBelow(band, level) == BandUpper(band) <= level

\* a result dict that reports significance where none was computed
FailedResult_Significant ==
    [significant |-> TRUE, p_value |-> "p=1.0",
     effect_size |-> Absent.kind, confidence_interval |-> Absent.kind]

\* the result dict of a test that raised, or that was not analysed
FailedResult ==
    [significant |-> FALSE, p_value |-> "p=1.0",
     effect_size |-> Absent.kind, confidence_interval |-> Absent.kind]

\* _chi_square_test: chi2_contingency on [[conv, non-conv] x [control, test]]
\* with the Yates correction scipy applies to a 2x2 table; it raises when an
\* expected frequency is zero, i.e. when a row or column sum is zero
chi_square_test(control, test_variant) ==
    LET a == control.conversions
        b == control.visitors - control.conversions
        c == test_variant.conversions
        d == test_variant.visitors - test_variant.conversions
        n == a + b + c + d
        dev == 2 * Abs(a * d - b * c) - n
        corrected == IF dev > 0 THEN dev ELSE 0
        \* chi2 = corrected^2 * n / (4 (a+b) (c+d) (a+c) (b+d)), multiplied
        \* factor by factor in lowest terms
        chi2 == RMul(RMul(Rat(corrected, 2 * (a + b)), Rat(corrected, 2 * (c + d))),
                     RMul(Rat(n, a + c), Rat(1, b + d)))
        band == IF chi2[1] * 10000 > Crit01 * chi2[2] THEN "p<0.01"
                ELSE IF chi2[1] * 10000 > Crit05 * chi2[2] THEN "0.01<=p<0.05"
                ELSE IF chi2[1] * 10000 > Crit10 * chi2[2] THEN "0.05<=p<0.1"
                ELSE "p>=0.1"
    IN IF a + b = 0 \/ c + d = 0 \/ a + c = 0 \/ b + d = 0 THEN FailedResult
       ELSE [significant |-> PValueBelow(band, SignificanceThreshold),
             p_value |-> band,
             effect_size |-> "cramers_v",
             confidence_interval |-> "wald"]

\* _analyze_statistical_significance with the winner assigned outside the
\* "if result['significant']" block
analyze_statistical_significance_WinnerAlways(test) ==
    IF Len(test.test_variants) # 1
    THEN [test |-> test, result |-> FailedResult]
    ELSE
      LET control == test.control_variant
          test_variant == test.test_variants[1]
          result == chi_square_test(control, test_variant)
      IN [test |-> [test EXCEPT
                      !.p_value = result.p_value,
                      !.statistical_significance = result.significant,
                      !.confidence_interval =
                          IF result.confidence_interval = Absent.kind THEN None
                          ELSE result.confidence_interval,
                      !.effect_size =
                          IF result.effect_size = Absent.kind THEN "0.0"
                          ELSE result.effect_size,
                      !.winner_variant_id =
                          IF RLess(control.conversion_rate, test_variant.conversion_rate)
                          THEN test_variant.variant_id
                          ELSE control.variant_id],
          result |-> result]

\* _analyze_statistical_significance: the test after the call, and the result
analyze_statistical_significance(test) ==
    IF Len(test.test_variants) # 1
    THEN [test |-> test, result |-> FailedResult]
    ELSE
      LET control == test.control_variant
          test_variant == test.test_variants[1]
          result == chi_square_test(control, test_variant)
          t1 == [test EXCEPT
                   !.p_value = result.p_value,
                   !.statistical_significance = result.significant,
                   !.confidence_interval =
                       IF result.confidence_interval = Absent.kind THEN None
                       ELSE result.confidence_interval,
                   !.effect_size =
                       IF result.effect_size = Absent.kind THEN "0.0" ELSE result.effect_size]
          t2 == IF result.significant
                THEN [t1 EXCEPT !.winner_variant_id =
                        IF RLess(control.conversion_rate, test_variant.conversion_rate)
                        THEN test_variant.variant_id
                        ELSE control.variant_id]
                ELSE t1
      IN [test |-> t2, result |-> result]


\* ------------------------------------------------ insight extractor
\* the variant with the winner id: the control, else the first test variant
\* with that id, else none (<<>>)
FindWinner(test) ==
    LET idx == FindVariant(test, test.winner_variant_id)
    IN IF test.winner_variant_id = None \/ idx = NotFound THEN <<>>
       ELSE IF idx = 0 THEN <<test.control_variant>>
       ELSE <<test.test_variants[idx]>>

\* the per-variant insights of the loop of _generate_test_insights
VariantInsights(test, variant) ==
    LET control == test.control_variant
        improvement == RDiv(RSub(variant.conversion_rate, control.conversion_rate),
                            control.conversion_rate)
        conv == IF test.primary_metric # "conversion_rate" THEN <<>>
                ELSE IF RLess(RZero, improvement)
                THEN << <<"improved conversion rate", variant.name>> >>
                ELSE << <<"decreased conversion rate", variant.name>> >>
        eng == IF RLess(control.engagement_score, variant.engagement_score)
               THEN << <<"improved engagement", variant.name>> >>
               ELSE <<>>
    IN conv \o eng

\* the loop body raises ZeroDivisionError on a zero control conversion_rate,
\* or on a zero control engagement_score below the variant's
VariantInsightsRaise(test, variant) ==
    LET control == test.control_variant
    IN \/ (test.primary_metric = "conversion_rate" /\ control.conversion_rate = RZero)
       \/ (RLess(control.engagement_score, variant.engagement_score)
           /\ control.engagement_score = RZero)

RECURSIVE AllVariantInsights(_, _)
AllVariantInsights(test, variants) ==
    IF variants = <<>> THEN <<>>
    ELSE VariantInsights(test, Head(variants)) \o AllVariantInsights(test, Tail(variants))

\* _generate_specific_recommendations
specific_recommendations(winner) ==
    (IF "headline" \in DOMAIN winner.content
     THEN << <<"Use headline pattern", winner.content["headline"]>> >> ELSE <<>>)
    \o (IF "cta_text" \in DOMAIN winner.content
        THEN << <<"Apply CTA text", winner.content["cta_text"]>> >> ELSE <<>>)
    \o (IF "color_scheme" \in DOMAIN winner.design
        THEN << <<"Consider color scheme", winner.design["color_scheme"]>> >> ELSE <<>>)
    \o (IF "layout" \in DOMAIN winner.design
        THEN << <<"Implement layout", winner.design["layout"]>> >> ELSE <<>>)

\* _generate_test_insights: insights and recommendations are assigned at the
\* end of the try block, so an exception (a zero division in the loop, or
\* formatting a p_value that is None) leaves both as they were
generate_test_insights(test) ==
    LET raises ==
            \/ \E i \in 1..Len(test.test_variants) :
                   VariantInsightsRaise(test, test.test_variants[i])
            \/ test.p_value = None
        significance ==
            IF test.statistical_significance
            THEN << <<"Results are statistically significant", test.p_value>> >>
            ELSE << <<"Results are not statistically significant", test.p_value>> >>
        winner == FindWinner(test)
        recommendations ==
            IF winner = <<>> THEN <<>>
            ELSE << <<"Implement variant", winner[1].name>> >>
                 \o specific_recommendations(winner[1])
    IN IF raises THEN test
       ELSE [test EXCEPT
               !.insights = AllVariantInsights(test, test.test_variants) \o significance,
               !.recommendations = recommendations]

\* ------------------------------------------------------ learning store
\* _analyze_content_differences / _analyze_design_differences (what names
\* the element kind), over the winner's keys in insertion order
RECURSIVE analyze_differences(_, _, _, _)
analyze_differences(what, control_dict, winner_dict, keys) ==
    IF keys = <<>> THEN <<>>
    ELSE LET key == Head(keys)
             here == IF key \notin DOMAIN winner_dict THEN <<>>
                     ELSE IF key \notin DOMAIN control_dict
                     THEN << <<"Added", what, key>> >>
                     ELSE IF winner_dict[key] # control_dict[key]
                     THEN << <<"Modified", key, control_dict[key], winner_dict[key]>> >>
                     ELSE <<>>
         IN here \o analyze_differences(what, control_dict, winner_dict, Tail(keys))

\* _learn_from_test: the LearningUpdates the call appends (none or one)
learn_from_test(test) ==
    LET winner == FindWinner(test)
        control == test.control_variant
    IN IF ~test.statistical_significance THEN <<>>
       ELSE IF winner = <<>> THEN <<>>
       \* ZeroDivisionError computing the improvement, caught by the except
       ELSE IF test.primary_metric = "conversion_rate" /\ control.conversion_rate = RZero
       THEN <<>>
       ELSE
         LET winner_variant == winner[1]
             improvement == RDiv(RSub(winner_variant.conversion_rate,
                                      control.conversion_rate),
                                 control.conversion_rate)
             content_diff == IF winner_variant.content # control.content
                             THEN analyze_differences("content element", control.content,
                                                      winner_variant.content, KeyOrder)
                             ELSE <<>>
             design_diff == IF winner_variant.design # control.design
                            THEN analyze_differences("design element", control.design,
                                                     winner_variant.design, KeyOrder)
                            ELSE <<>>
         IN << [update_id |-> test.test_id,
                source_test_id |-> test.test_id,
                pattern_type |-> "test_result",
                learned_insights |-> content_diff \o design_diff,
                performance_improvement |-> improvement,
                confidence_score |-> test.p_value,
                created_at |-> now] >>


\* --------------------------------------------------------- stopping
\* the body of _stop_test on an active test: status and ended_at are set,
\* then insights are generated
StoppedTest(test) ==
    generate_test_insights([test EXCEPT !.status = COMPLETED, !.ended_at = now])

\* _stop_test assigning the new list to learned_patterns instead of appending
StopEffect_ReplacesStore(test_id, test) ==
    /\ completed_tests' = Put(completed_tests, test_id, StoppedTest(test))
    /\ active_tests' = Del(active_tests, test_id)
    /\ learned_patterns' = learn_from_test(StoppedTest(test))

\* _stop_test's effect on the registries and the learning store
StopEffect(test_id, test) ==
    /\ completed_tests' = Put(completed_tests, test_id, StoppedTest(test))
    /\ active_tests' = Del(active_tests, test_id)
    /\ learned_patterns' = learned_patterns \o learn_from_test(StoppedTest(test))

\* _stop_test running a significance evaluation before it completes the test
stop_test_Evaluates(test_id) ==
    /\ IF test_id \in DOMAIN active_tests
       THEN StopEffect(test_id,
                       analyze_statistical_significance(active_tests[test_id]).test)
       ELSE UNCHANGED <<active_tests, completed_tests, learned_patterns>>
    /\ last' = [op |-> "stop_test", returned |-> PyBool(test_id \in DOMAIN active_tests)]
    /\ UNCHANGED now

\* _stop_test called by a client ("Manual stop")
stop_test(test_id) ==
    /\ IF test_id \in DOMAIN active_tests
       THEN StopEffect(test_id, active_tests[test_id])
       ELSE UNCHANGED <<active_tests, completed_tests, learned_patterns>>
    /\ last' = [op |-> "stop_test", returned |-> PyBool(test_id \in DOMAIN active_tests)]
    /\ UNCHANGED now

\* _check_early_stopping without the minimum-duration return
EarlyStopPreconditions_NoDuration(test) ==
    IF total_visitors(test) < test.minimum_sample_size THEN FALSE
    ELSE TRUE

\* _check_early_stopping: whether the significance analysis is reached
EarlyStopPreconditions(test) ==
    IF total_visitors(test) < test.minimum_sample_size THEN FALSE
    ELSE IF test.started_at # NoTime
            /\ Days(test.started_at, now) < test.minimum_duration_days THEN FALSE
    ELSE TRUE

\* record_visitor_interaction without the check of the RUNNING status
record_returns_NoStatusCheck(test_id, variant_id) ==
    IF test_id \notin DOMAIN active_tests THEN FALSE
    ELSE IF FindVariant(active_tests[test_id], variant_id) = NotFound THEN FALSE
    ELSE TRUE

\* record_visitor_interaction: the three early returns (FALSE), else the
\* update of the variant is entered
record_returns(test_id, variant_id) ==
    IF test_id \notin DOMAIN active_tests THEN FALSE
    ELSE IF active_tests[test_id].status # RUNNING THEN FALSE
    ELSE IF FindVariant(active_tests[test_id], variant_id) = NotFound THEN FALSE
    ELSE TRUE

\* the update of the variant raises TypeError part-way, at
\* "variant.revenue += visitor_data['revenue']", when the key is present
\* with the value None; the except clause then returns False
update_raises(visitor_data) == visitor_data.revenue.kind = "null"

\* record_visitor_interaction without the call of _check_early_stopping
record_visitor_interaction_NoEarlyStop(test_id, variant_id, visitor_data) ==
    /\ IF record_returns(test_id, variant_id)
       THEN LET test == active_tests[test_id]
            IN /\ active_tests' = [active_tests EXCEPT ![test_id] =
                     WithUpdatedVariant(test, FindVariant(test, variant_id),
                                        visitor_data)]
               /\ UNCHANGED <<completed_tests, learned_patterns>>
       ELSE UNCHANGED <<active_tests, completed_tests, learned_patterns>>
    /\ last' = [op |-> "record_visitor_interaction",
                returned |-> PyBool(record_returns(test_id, variant_id)
                                       /\ ~update_raises(visitor_data))]
    /\ UNCHANGED now

record_visitor_interaction(test_id, variant_id, visitor_data) ==
    /\ IF record_returns(test_id, variant_id)
       THEN LET test == active_tests[test_id]
                updated == WithUpdatedVariant(test, FindVariant(test, variant_id),
                                              visitor_data)
                analysis == analyze_statistical_significance(updated)
            IN IF update_raises(visitor_data) \/ ~EarlyStopPreconditions(updated)
               THEN /\ active_tests' = [active_tests EXCEPT ![test_id] = updated]
                    /\ UNCHANGED <<completed_tests, learned_patterns>>
               ELSE IF analysis.result.significant
               THEN StopEffect(test_id, analysis.test)
               ELSE /\ active_tests' = [active_tests EXCEPT ![test_id] = analysis.test]
                    /\ UNCHANGED <<completed_tests, learned_patterns>>
       ELSE UNCHANGED <<active_tests, completed_tests, learned_patterns>>
    /\ last' = [op |-> "record_visitor_interaction",
                returned |-> PyBool(record_returns(test_id, variant_id)
                                       /\ ~update_raises(visitor_data))]
    /\ UNCHANGED now

\* ---------------------------------------------------- call log
\* the values supplied so far for one optional metric: how many, and their sum
NoValues == [n |-> 0, sum |-> RZero]
Supplied(values, field) ==
    IF field.kind = "absent" THEN values
    ELSE [n |-> values.n + 1, sum |-> RAdd(values.sum, field.value)]

NoCalls ==
    [calls |-> 0, converted |-> 0,
     time_on_page |-> NoValues, bounce_rate |-> NoValues, scroll_depth |-> NoValues]

\* the log after record_visitor_interaction(test_id, variant_id, visitor_data)
\* returned: only a call that returns True is entered
Logged(test_id, variant_id, visitor_data) ==
    IF ~record_returns(test_id, variant_id) \/ update_raises(visitor_data) THEN log
    ELSE [log EXCEPT ![test_id][variant_id] =
            [calls |-> @.calls + 1,
             converted |-> @.converted + (IF visitor_data.converted THEN 1 ELSE 0),
             time_on_page |-> Supplied(@.time_on_page, visitor_data.time_on_page),
             bounce_rate |-> Supplied(@.bounce_rate,
                 [kind |-> visitor_data.bounce_rate.kind,
                  value |-> IF visitor_data.bounce_rate.value # RZero
                            THEN ROne ELSE RZero]),
             scroll_depth |-> Supplied(@.scroll_depth, visitor_data.scroll_depth)]]

\* a record_visitor_interaction call, entered in the log
Recorded(test_id, variant_id, visitor_data) ==
    /\ record_visitor_interaction(test_id, variant_id, visitor_data)
    /\ log' = Logged(test_id, variant_id, visitor_data)
    /\ UNCHANGED <<status_reply, pending>>

\* ---------------------------------------------------- concurrent calls
\* The manager's coroutines await only each other (lines 405, 456, 460, 612,
\* 615, 686, 791): none of them suspends, so the event loop runs every call
\* from its first line to its return before it switches to another task.
\* Concurrent callers are tasks waiting in the loop, run in any order.
RecordCall(test_id, variant_id, visitor_data) ==
    [op |-> "record_visitor_interaction", test_id |-> test_id,
     variant_id |-> variant_id, visitor_data |-> visitor_data]
StopCall(test_id) ==
    [op |-> "stop_test", test_id |-> test_id,
     variant_id |-> None, visitor_data |-> None]

\* a caller hands a call to the event loop
create_task(call) ==
    /\ pending' = pending (+) SetToBag({call})
    /\ UNCHANGED <<active_tests, completed_tests, learned_patterns, now, last,
                   status_reply, log>>

\* the event loop runs one of the waiting calls to its end
run_task(call) ==
    /\ BagIn(call, pending)
    /\ pending' = pending (-) SetToBag({call})
    /\ IF call.op = "stop_test"
       THEN stop_test(call.test_id) /\ UNCHANGED log
       ELSE /\ record_visitor_interaction(call.test_id, call.variant_id,
                                          call.visitor_data)
            /\ log' = Logged(call.test_id, call.variant_id, call.visitor_data)
    /\ UNCHANGED status_reply

\* ------------------------------------------------------- status query
\* the visitors / conversions of the variants, as get_test_status lists them
RECURSIVE Counters(_)
Counters(variants) ==
    IF variants = <<>> THEN <<>>
    ELSE << [variant_id |-> Head(variants).variant_id,
             visitors |-> Head(variants).visitors,
             conversions |-> Head(variants).conversions] >>
         \o Counters(Tail(variants))

\* get_test_status with 'overall' taken as min(progress, time_progress)
StatusOf_OverallMin(test) ==
    LET progress == RMin(Rat(total_visitors(test), test.minimum_sample_size), ROne)
        time_progress ==
            IF test.started_at = NoTime THEN RZero
            ELSE RMin(Rat(Days(test.started_at, now), test.minimum_duration_days), ROne)
    IN [found |-> TRUE,
        visitors |-> progress,
        time |-> time_progress,
        overall |-> RMin(progress, time_progress),
        counters |-> Counters(<<test.control_variant>> \o test.test_variants)]

\* the dict get_test_status builds for a test: the progress block and the
\* counters of the variants block
StatusOf(test) ==
    LET progress == RMin(Rat(total_visitors(test), test.minimum_sample_size), ROne)
        time_progress ==
            IF test.started_at = NoTime THEN RZero
            ELSE RMin(Rat(Days(test.started_at, now), test.minimum_duration_days), ROne)
    IN [found |-> TRUE,
        visitors |-> progress,
        time |-> time_progress,
        overall |-> RMax(progress, time_progress),
        counters |-> Counters(<<test.control_variant>> \o test.test_variants)]

\* get_test_status returned None, or was not called yet
NoReply == [found |-> FALSE, visitors |-> RZero, time |-> RZero, overall |-> RZero,
            counters |-> <<>>]

\* get_test_status: looks the test up in active_tests, then completed_tests
get_test_status(test_id) ==
    /\ status_reply' =
          IF test_id \in DOMAIN active_tests THEN StatusOf(active_tests[test_id])
          ELSE IF test_id \in DOMAIN completed_tests
          THEN StatusOf(completed_tests[test_id])
          ELSE NoReply
    /\ last' = [op |-> "get_test_status",
                returned |-> PyBool(test_id \in DOMAIN active_tests
                                       \cup DOMAIN completed_tests)]
    /\ UNCHANGED <<active_tests, completed_tests, learned_patterns, now, pending, log>>

\* the experiment has room for one more visitor under a cap of the model
Below(test_id, cap) ==
    test_id \in DOMAIN active_tests => total_visitors(active_tests[test_id]) < cap

\* ------------------------------------------------------ specification
Init ==
    /\ active_tests = EmptyDict
    /\ completed_tests = EmptyDict
    /\ learned_patterns = <<>>
    /\ now = 0
    /\ last = [op |-> "init", returned |-> None]
    /\ status_reply = NoReply
    /\ pending = <<>>
    /\ log = [t \in TestIds \cup {SecondTestId} |->
                [v \in VariantIds \cup {TreatmentIds[i] : i \in DOMAIN TreatmentIds} |->
                    NoCalls]]

Next ==
    \/ \E test_id \in TestIds, cfg \in Configs :
          create_ab_test(test_id, cfg) /\ UNCHANGED out
    \/ \E test_id \in TestIds \cup {UnknownTestId} :
          start_test(test_id) /\ UNCHANGED out
    \/ \E test_id \in TestIds \cup {UnknownTestId},
          variant_id \in VariantIds \cup {UnknownVariantId},
          visitor_data \in Events :
            /\ Below(test_id, MaxVisitors)
            /\ Recorded(test_id, variant_id, visitor_data)
    \/ \E test_id \in TestIds \cup {UnknownTestId} :
          stop_test(test_id) /\ UNCHANGED out
    \/ Tick /\ UNCHANGED out

Spec == Init /\ [][Next]_vars

\* the one valid configuration
ValidConfig == [control_allocation |-> 500, test_allocation |-> 500,
                significance_level |-> 500]

\* ---------------------------------------- specification: engagement metrics
\* events that may or may not carry time_on_page, bounce_rate, scroll_depth
MeanVisitors == 3
MeanEvents == [converted : {FALSE},
               time_on_page : {Absent, Val(<<60, 1>>), Val(<<120, 1>>)},
               bounce_rate : {Absent, Val(ROne)},
               scroll_depth : {Absent, Val(<<1, 2>>)},
               revenue : {Absent}]

NextMean ==
    \/ \E test_id \in TestIds : create_ab_test(test_id, ValidConfig) /\ UNCHANGED out
    \/ \E test_id \in TestIds : start_test(test_id) /\ UNCHANGED out
    \/ \E test_id \in TestIds, variant_id \in VariantIds, visitor_data \in MeanEvents :
          /\ Below(test_id, MeanVisitors)
          /\ Recorded(test_id, variant_id, visitor_data)

SpecMean == Init /\ [][NextMean]_vars

\* ------------------------------------- specification: significance levels
\* experiments created with each of the three significance levels
LevelConfigs == [control_allocation : {500}, test_allocation : {500},
                 significance_level : SignificanceLevel]

NextLevels ==
    \/ \E test_id \in TestIds, cfg \in LevelConfigs :
          create_ab_test(test_id, cfg) /\ UNCHANGED out
    \/ \E test_id \in TestIds : start_test(test_id) /\ UNCHANGED out
    \/ \E test_id \in TestIds, variant_id \in VariantIds, visitor_data \in Events :
          /\ Below(test_id, MaxVisitors)
          /\ Recorded(test_id, variant_id, visitor_data)
    \/ Tick /\ UNCHANGED out

SpecLevels == Init /\ [][NextLevels]_vars

\* --------------------------------------- specification: longer experiments
\* one experiment that collects visitors beyond its minimum sample size
\* before the minimum duration has passed
LongHeadroom == 3
LongVisitors == SampleSize + LongHeadroom

NextLong ==
    \/ \E test_id \in TestIds : create_ab_test(test_id, ValidConfig) /\ UNCHANGED out
    \/ \E test_id \in TestIds : start_test(test_id) /\ UNCHANGED out
    \/ \E test_id \in TestIds, variant_id \in VariantIds, visitor_data \in Events :
          /\ Below(test_id, LongVisitors)
          /\ Recorded(test_id, variant_id, visitor_data)
    \/ Tick /\ UNCHANGED out

SpecLong == Init /\ [][NextLong]_vars

\* ------------------------------------------- specification: concurrent calls
\* at most MaxPending calls wait in the event loop
MaxPending == 2
\* the calls of the concurrent callers: visitors of the control, converting
\* or not, converting visitors of the treatment, and a stop
Calls == {RecordCall(t, "control", e) : t \in TestIds, e \in Events}
           \cup {RecordCall(t, "test_v1", e) : t \in TestIds,
                                               e \in {x \in Events : x.converted}}
           \cup {StopCall(t) : t \in TestIds}

NextTasks ==
    \/ \E test_id \in TestIds : create_ab_test(test_id, ValidConfig) /\ UNCHANGED out
    \/ \E test_id \in TestIds : start_test(test_id) /\ UNCHANGED out
    \/ \E call \in Calls :
          /\ BagCardinality(pending) < MaxPending
          /\ Below(call.test_id, MaxVisitors - BagCardinality(pending))
          /\ create_task(call)
    \/ \E call \in Calls : run_task(call)
    \/ Tick /\ UNCHANGED out

SpecTasks == Init /\ [][NextTasks]_vars

\* ------------------------------- specification: the 100 / 150 in 1000 scenario
\* the counters of the two arms
Scenario == [visitors |-> 1000, control_conversions |-> 100,
             treatment_conversions |-> 150]

\* a variant after `visitors` recorded interactions of which `conversions`
\* converted, the last of them as visitor number last_conversion:
\* conversion_rate was last assigned there (UpdatedVariant), and the
\* engagement score is the one of a variant without engagement metrics
RecordedVariant(variant, visitors, conversions, last_conversion) ==
    [variant EXCEPT !.visitors = visitors,
                    !.conversions = conversions,
                    !.conversion_rate = Rat(conversions, last_conversion),
                    !.engagement_score = calculate_engagement_score(variant)]

\* the visitor numbers at which an arm may have seen its last conversion
LastConversions(conversions) ==
    {k \in conversions..Scenario.visitors :
        k = Scenario.visitors \/ (k - conversions) % 100 = 0}

ScenarioTest(control_last, treatment_last) ==
    LET test == NewABTest("t1", ValidConfig)
    IN [test EXCEPT
          !.status = RUNNING,
          !.started_at = 0,
          !.control_variant =
              RecordedVariant(@, Scenario.visitors, Scenario.control_conversions,
                              control_last),
          !.test_variants[1] =
              RecordedVariant(@, Scenario.visitors, Scenario.treatment_conversions,
                              treatment_last)]

InitScenario ==
    /\ \E control_last \in LastConversions(Scenario.control_conversions),
          treatment_last \in LastConversions(Scenario.treatment_conversions) :
            active_tests = [t \in TestIds |-> ScenarioTest(control_last, treatment_last)]
    /\ completed_tests = EmptyDict
    /\ learned_patterns = <<>>
    /\ now = 0
    /\ last = [op |-> "init", returned |-> None]
    /\ status_reply = NoReply
    /\ pending = <<>>
    /\ log = [t \in TestIds \cup {SecondTestId} |-> [v \in VariantIds |->
                IF t \notin TestIds THEN NoCalls
                ELSE [NoCalls EXCEPT
                        !.calls = Scenario.visitors,
                        !.converted = IF v = "control"
                                      THEN Scenario.control_conversions
                                      ELSE Scenario.treatment_conversions]]]

\* one call of _analyze_statistical_significance on an active experiment
evaluate_significance(test_id) ==
    /\ test_id \in DOMAIN active_tests
    /\ active_tests' = [active_tests EXCEPT
                           ![test_id] = analyze_statistical_significance(@).test]
    /\ last' = [op |-> "_analyze_statistical_significance",
                returned |-> PyBool(analyze_statistical_significance(
                                        active_tests[test_id]).result.significant)]
    /\ UNCHANGED <<completed_tests, learned_patterns, now>>

NextScenario == \E test_id \in TestIds : evaluate_significance(test_id) /\ UNCHANGED out

SpecScenario == InitScenario /\ [][NextScenario]_vars

\* ---------------------------------------------- specification: status query
\* an experiment that may pass its minimum sample size, queried at any time
StatusHeadroom == 1
\* visitors of the control who convert, visitors of the treatment who do not
StatusEvents(variant_id) ==
    {visitor_data \in Events : visitor_data.converted <=> variant_id = "control"}

NextStatus ==
    \/ \E test_id \in TestIds : create_ab_test(test_id, ValidConfig) /\ UNCHANGED out
    \/ \E test_id \in TestIds : start_test(test_id) /\ UNCHANGED out
    \/ \E test_id \in TestIds, variant_id \in VariantIds :
        \E visitor_data \in StatusEvents(variant_id) :
          /\ Below(test_id, SampleSize + StatusHeadroom)
          /\ Recorded(test_id, variant_id, visitor_data)
    \/ \E test_id \in TestIds : stop_test(test_id) /\ UNCHANGED out
    \/ Tick /\ UNCHANGED out
    \/ \E test_id \in TestIds \cup {UnknownTestId} : get_test_status(test_id)

SpecStatus == Init /\ [][NextStatus]_vars

\* -------------------------------------------- specification: learning store
\* one experiment that runs long enough to be learned from, and a second one
\* that is created and stopped by hand
StoreEvents(variant_id) ==
    {visitor_data \in Events : variant_id = "control" \/ visitor_data.converted}

NextStore ==
    \/ \E test_id \in TestIds \cup {SecondTestId} :
          create_ab_test(test_id, ValidConfig) /\ UNCHANGED out
    \/ \E test_id \in TestIds : start_test(test_id) /\ UNCHANGED out
    \/ \E test_id \in TestIds, variant_id \in VariantIds :
        \E visitor_data \in StoreEvents(variant_id) :
          /\ Below(test_id, LongVisitors)
          /\ Recorded(test_id, variant_id, visitor_data)
    \/ stop_test(SecondTestId) /\ UNCHANGED out
    \/ Tick /\ UNCHANGED out

SpecStore == Init /\ [][NextStore]_vars


\* ------------------------------------------- specification: pause and resume
\* ABTestManager defines no pause and no resume method, and no other code
\* assigns TestStatus.PAUSED: a caller's manager.pause_test(test_id) or
\* manager.resume_test(test_id) raises AttributeError and changes nothing
missing_method(name, test_id) ==
    /\ last' = [op |-> name, returned |-> "AttributeError"]
    /\ UNCHANGED <<active_tests, completed_tests, learned_patterns, now>>

pause_test(test_id) == missing_method("pause_test", test_id)
resume_test(test_id) == missing_method("resume_test", test_id)

PauseVisitors == 3

NextPause ==
    \/ \E test_id \in TestIds : create_ab_test(test_id, ValidConfig) /\ UNCHANGED out
    \/ \E test_id \in TestIds : start_test(test_id) /\ UNCHANGED out
    \/ \E test_id \in TestIds, variant_id \in VariantIds, visitor_data \in Events :
          /\ Below(test_id, PauseVisitors)
          /\ Recorded(test_id, variant_id, visitor_data)
    \/ \E test_id \in TestIds : pause_test(test_id) /\ UNCHANGED out
    \/ \E test_id \in TestIds : resume_test(test_id) /\ UNCHANGED out

SpecPause == Init /\ [][NextPause]_vars


\* ------------------------------------------- specification: null metrics
\* events whose revenue key is missing, present with None, or present with
\* a value
NullVisitors == 3
NullEvents == [converted : BOOLEAN,
               time_on_page : {Absent}, bounce_rate : {Absent},
               scroll_depth : {Absent},
               revenue : {Absent, Null, Val(<<10, 1>>)}]

NextNull ==
    \/ \E test_id \in TestIds : create_ab_test(test_id, ValidConfig) /\ UNCHANGED out
    \/ \E test_id \in TestIds : start_test(test_id) /\ UNCHANGED out
    \/ \E test_id \in TestIds, variant_id \in VariantIds, visitor_data \in NullEvents :
          /\ Below(test_id, NullVisitors)
          /\ Recorded(test_id, variant_id, visitor_data)

SpecNull == Init /\ [][NextNull]_vars


\* ---------------------------------------- specification: recommendations
\* get_optimization_recommendations reads the last RecentPatterns learned
\* patterns above the threshold (10 in the source, scaled down here) and
\* lists the first TopPatterns insights by frequency (5 in the source)
RecentPatterns == 2
TopPatterns == 2
MinFrequency == 2
ImprovementThreshold == <<1, 20>>
BounceThreshold == <<7, 10>>
ScrollThreshold == <<3, 10>>

\* seq[:n] taken where seq[-n:] is meant: the oldest, not the most recent
LastOf_Oldest(seq, n) == IF Len(seq) <= n THEN seq ELSE SubSeq(seq, 1, n)

\* seq[-n:]
LastOf(seq, n) ==
    IF Len(seq) <= n THEN seq ELSE SubSeq(seq, Len(seq) - n + 1, Len(seq))
\* seq[:n]
FirstOf(seq, n) == IF Len(seq) <= n THEN seq ELSE SubSeq(seq, 1, n)

\* success_insights: the learned_insights of the patterns, one after another
RECURSIVE ExtendAll(_)
ExtendAll(patterns) ==
    IF patterns = <<>> THEN <<>>
    ELSE Head(patterns).learned_insights \o ExtendAll(Tail(patterns))

\* pattern_frequency.items(): <<insight, count>> in the order in which the
\* insights were first counted (dicts keep insertion order)
RECURSIVE FrequencyItems(_, _)
FrequencyItems(insights, items) ==
    IF insights = <<>> THEN items
    ELSE LET insight == Head(insights)
             at == {i \in 1..Len(items) : items[i][1] = insight}
         IN FrequencyItems(Tail(insights),
                IF at = {} THEN Append(items, <<insight, 1>>)
                ELSE [i \in 1..Len(items) |->
                        IF i \in at THEN <<insight, items[i][2] + 1>> ELSE items[i]])

\* sorted(items, key=count, reverse=True): a stable sort, so items with equal
\* counts keep their order
RECURSIVE SortedByCount(_)
SortedByCount(items) ==
    IF items = <<>> THEN <<>>
    ELSE LET best == CHOOSE i \in 1..Len(items) :
                        /\ \A j \in 1..Len(items) : items[j][2] <= items[i][2]
                        /\ \A j \in 1..(i - 1) : items[j][2] < items[i][2]
         IN <<items[best]>>
            \o SortedByCount([i \in 1..(Len(items) - 1) |->
                                 IF i < best THEN items[i] ELSE items[i + 1]])

\* the "Consider: ..." entries
RECURSIVE ConsiderEntries(_)
ConsiderEntries(top_patterns) ==
    IF top_patterns = <<>> THEN <<>>
    ELSE (IF Head(top_patterns)[2] >= MinFrequency
          THEN << <<"Consider", Head(top_patterns)[1], Head(top_patterns)[2]>> >>
          ELSE <<>>)
         \o ConsiderEntries(Tail(top_patterns))

\* the list get_optimization_recommendations returns
optimization_recommendations(current_variant) ==
    LET relevant_patterns ==
            SelectSeq(learned_patterns,
                      LAMBDA pattern : RLess(ImprovementThreshold,
                                             pattern.performance_improvement))
        success_insights == ExtendAll(LastOf(relevant_patterns, RecentPatterns))
        top_patterns == SortedByCount(FrequencyItems(success_insights, <<>>))
        pattern_based == ConsiderEntries(FirstOf(top_patterns, TopPatterns))
        general ==
            (IF RLess(BounceThreshold, current_variant.bounce_rate)
             THEN << <<"High bounce rate detected">> >> ELSE <<>>)
            \o (IF RLess(current_variant.scroll_depth, ScrollThreshold)
                THEN << <<"Low scroll depth">> >> ELSE <<>>)
    IN IF pattern_based \o general = <<>>
       THEN << <<"Continue testing with incremental changes">> >>
       ELSE pattern_based \o general

get_optimization_recommendations(current_variant) ==
    /\ last' = [op |-> "get_optimization_recommendations",
                returned |-> optimization_recommendations(current_variant)]
    /\ UNCHANGED <<active_tests, completed_tests, learned_patterns, now>>

\* the variants the caller asks about: a fresh one, as the API builds it, and
\* one with a high bounce rate and a scroll depth above the threshold
CurrentVariants ==
    {TestVariant("current", 1000, ControlContent, ControlDesign),
     [TestVariant("current", 1000, ControlContent, ControlDesign)
         EXCEPT !.bounce_rate = ROne, !.scroll_depth = <<1, 2>>]}

\* the insights _learn_from_test can record for an experiment, and the
\* improvements: at the threshold, and above it
StoreLen == 4
HeadlineInsight == <<"Modified", "headline", "Original Headline", "Improved Headline">>
CtaInsight == <<"Added", "content element", "cta_text">>
LayoutInsight == <<"Modified", "layout", "standard", "wide">>
LearnedInsights == {<<HeadlineInsight>>, <<HeadlineInsight, CtaInsight>>,
                    <<CtaInsight, LayoutInsight>>,
                    <<HeadlineInsight, CtaInsight, LayoutInsight>>}
LearningUpdates(i) ==
    [update_id : {ToString(i)}, source_test_id : {ToString(i)},
     pattern_type : {"test_result"},
     learned_insights : LearnedInsights,
     performance_improvement : {ImprovementThreshold, <<1, 2>>},
     confidence_score : {"p<0.01"}, created_at : {0}]

\* the stores of up to StoreLen LearningUpdates, the i-th from experiment i
Stores ==
    UNION {{store \in [1..n -> UNION {LearningUpdates(i) : i \in 1..n}] :
              \A i \in 1..n : store[i] \in LearningUpdates(i)} : n \in 0..StoreLen}

InitRecommend ==
    /\ active_tests = EmptyDict
    /\ completed_tests = EmptyDict
    /\ learned_patterns \in Stores
    /\ now = 0
    /\ last = [op |-> "init", returned |-> None]
    /\ status_reply = NoReply
    /\ pending = <<>>
    /\ log = [t \in TestIds \cup {SecondTestId} |-> [v \in VariantIds |-> NoCalls]]

NextRecommend ==
    \E current_variant \in CurrentVariants :
        get_optimization_recommendations(current_variant) /\ UNCHANGED out

SpecRecommend == InitRecommend /\ [][NextRecommend]_vars


\* --------------------------------------- specification: number of treatments
\* experiments with no treatment (the control takes all traffic) and with
\* two treatments (the API's default split)
ArmConfigs == {[control_allocation |-> 1000, allocations |-> <<>>],
               [control_allocation |-> 500, allocations |-> <<250, 250>>]}

NewMultiArmTest(test_id, arms) ==
    [NewABTest(test_id, ValidConfig) EXCEPT
        !.control_variant = TestVariant("control", arms.control_allocation,
                                        ControlContent, ControlDesign),
        !.test_variants = [i \in 1..Len(arms.allocations) |->
                              TestVariant(TreatmentIds[i], arms.allocations[i],
                                          TreatmentContent, TreatmentDesign)]]

\* create_ab_test called with a list of test variants
create_multi_arm_test(test_id, arms) ==
    /\ test_id \notin DOMAIN active_tests \cup DOMAIN completed_tests
    /\ active_tests' = Put(active_tests, test_id, NewMultiArmTest(test_id, arms))
    /\ last' = [op |-> "create_ab_test", returned |-> test_id]
    /\ UNCHANGED <<completed_tests, learned_patterns, now>>

\* visitors of the control who do not convert, visitors of the treatments
\* who do
ArmEvents(variant_id) ==
    {visitor_data \in Events : visitor_data.converted <=> variant_id # "control"}

NextArms ==
    \/ \E test_id \in TestIds, arms \in ArmConfigs :
          create_multi_arm_test(test_id, arms) /\ UNCHANGED out
    \/ \E test_id \in TestIds : start_test(test_id) /\ UNCHANGED out
    \/ \E test_id \in TestIds,
          variant_id \in {"control"} \cup {TreatmentIds[i] : i \in DOMAIN TreatmentIds} :
        \E visitor_data \in ArmEvents(variant_id) :
          /\ Below(test_id, MaxVisitors)
          /\ Recorded(test_id, variant_id, visitor_data)
    \/ Tick /\ UNCHANGED out

SpecArms == Init /\ [][NextArms]_vars


\* ------------------------------------------- specification: two experiments
\* the first experiment can reach its minimum sample size with visitors that
\* separate the arms; the second takes a few visitors of any kind; the clock
\* is read before and after the minimum duration
SecondVisitors == 2
TwoEvents(test_id, variant_id) ==
    {visitor_data \in Events :
        test_id = SecondTestId \/ (visitor_data.converted <=> variant_id # "control")}

NextTwo ==
    \/ \E test_id \in TestIds \cup {SecondTestId} :
          create_ab_test(test_id, ValidConfig) /\ UNCHANGED out
    \/ \E test_id \in TestIds \cup {SecondTestId} : start_test(test_id) /\ UNCHANGED out
    \/ \E test_id \in TestIds \cup {SecondTestId}, variant_id \in VariantIds :
        \E visitor_data \in TwoEvents(test_id, variant_id) :
          /\ Below(test_id, IF test_id = SecondTestId THEN SecondVisitors ELSE MaxVisitors)
          /\ Recorded(test_id, variant_id, visitor_data)
    \/ \E test_id \in TestIds \cup {SecondTestId} : stop_test(test_id) /\ UNCHANGED out
    \/ Tick /\ now' = MinimumDurationDays * TicksPerDay /\ UNCHANGED out

SpecTwo == Init /\ [][NextTwo]_vars


\* ============================================================== claims
AllTestIds == TestIds \cup {UnknownTestId}
AllVariantIds == VariantIds \cup {UnknownVariantId}

\* the experiments of the registry, active or completed
Known == DOMAIN active_tests \cup DOMAIN completed_tests
TestOf(t) == IF t \in DOMAIN active_tests THEN active_tests[t] ELSE completed_tests[t]
VariantsOf(test) == <<test.control_variant>> \o test.test_variants

\* C1: after every successful record_visitor_interaction the variant's stored
\* conversion_rate equals conversions / visitors (variants change only in
\* successful calls, so this is stated for every variant that was visited)
C1_ConversionRateConsistent ==
    \A t \in Known : \A i \in 1..Len(VariantsOf(TestOf(t))) :
        LET v == VariantsOf(TestOf(t))[i]
        IN v.visitors > 0 => v.conversion_rate = Rat(v.conversions, v.visitors)

C3_ForcedStopAtMaximumDuration ==
    [][\A t \in TestIds, v \in AllVariantIds, e \in Events :
         (/\ record_visitor_interaction(t, v, e)
          /\ record_returns(t, v)
          /\ Days(active_tests[t].started_at, now) >= active_tests[t].maximum_duration_days)
         => /\ t \notin DOMAIN active_tests'
            /\ t \in DOMAIN completed_tests'
            /\ completed_tests'[t].status = COMPLETED]_vars

\* C4: a step that completes an experiment appends exactly one LearningUpdate
\* when the completed experiment's statistical_significance is true, and
\* none when it is false
C4_LearningRecordIffSignificant ==
    [][\A t \in TestIds :
         (t \in DOMAIN active_tests /\ t \in DOMAIN completed_tests')
         => IF completed_tests'[t].statistical_significance
            THEN /\ Len(learned_patterns') = Len(learned_patterns) + 1
                 /\ learned_patterns'[Len(learned_patterns')].source_test_id = t
            ELSE learned_patterns' = learned_patterns]_vars

\* C5: stop on an experiment that is not Running or Paused (Planning, already
\* Completed or Cancelled, unknown id) fails and leaves the registries, and
\* with them status, ended_at, insights and recommendations, and the learning
\* store unchanged
C5_StopOnlyFromRunningOrPaused ==
    [][\A t \in AllTestIds :
         (/\ stop_test(t)
          /\ ~(t \in DOMAIN active_tests /\ active_tests[t].status \in {RUNNING, PAUSED}))
         => /\ last'.returned = "False"
            /\ UNCHANGED <<active_tests, completed_tests, learned_patterns>>]_vars

\* C6: start_test returns True only on a Planning experiment, and then the
\* status is Running and started_at is the time of the call; on any other
\* experiment or an unknown id it returns False and changes nothing
C6_StartOnlyFromPlanning ==
    [][\A t \in AllTestIds :
         start_test(t)
         => /\ last'.returned = "True"
                => /\ t \in DOMAIN active_tests
                   /\ active_tests[t].status = PLANNING
                   /\ t \in DOMAIN active_tests'
                   /\ active_tests'[t].status = RUNNING
                   /\ active_tests'[t].started_at = now
                   /\ active_tests'[t].started_at # NoTime
            /\ ~(t \in DOMAIN active_tests /\ active_tests[t].status = PLANNING)
                => /\ last'.returned = "False"
                   /\ UNCHANGED <<active_tests, completed_tests, learned_patterns>>]_vars

\* a start has just succeeded
C6_Witness ==
    /\ last.op = "start_test"
    /\ last.returned = "True"
    /\ \E t \in DOMAIN active_tests :
         active_tests[t].status = RUNNING /\ active_tests[t].started_at = now

\* C7: every change of an experiment's status is one of Planning->Running,
\* Running->Paused, Paused->Running, Running->Completed/Cancelled,
\* Paused->Completed/Cancelled
AllowedEdges ==
    {<<PLANNING, RUNNING>>, <<RUNNING, PAUSED>>, <<PAUSED, RUNNING>>,
     <<RUNNING, COMPLETED>>, <<RUNNING, CANCELLED>>,
     <<PAUSED, COMPLETED>>, <<PAUSED, CANCELLED>>}

C7_StatusEdges ==
    [][\A t \in TestIds :
         (t \in Known /\ t \in Known' /\ TestOf(t)'.status # TestOf(t).status)
         => <<TestOf(t).status, TestOf(t)'.status>> \in AllowedEdges]_vars

\* C8: while an experiment is Running no step decreases a variant's visitors
\* or conversions, and while it is not Running no step changes any field of
\* its variants
C8_CountersMonotoneThenFrozen ==
    [][\A t \in TestIds :
         (t \in Known /\ t \in Known')
         => IF TestOf(t).status = RUNNING
            THEN \A i \in 1..Len(VariantsOf(TestOf(t))) :
                   /\ VariantsOf(TestOf(t))'[i].visitors >= VariantsOf(TestOf(t))[i].visitors
                   /\ VariantsOf(TestOf(t))'[i].conversions
                        >= VariantsOf(TestOf(t))[i].conversions
            ELSE VariantsOf(TestOf(t))' = VariantsOf(TestOf(t))]_vars

\* an interaction was just rejected on a completed experiment that has
\* recorded visitors
C8_Witness ==
    /\ last.op = "record_visitor_interaction"
    /\ last.returned = "False"
    /\ \E t \in DOMAIN completed_tests :
         /\ completed_tests[t].status = COMPLETED
         /\ total_visitors(completed_tests[t]) > 0

\* C9: record_visitor_interaction reports InvalidStateError for an experiment
\* that is not Running and NotFoundError for an unknown experiment or variant
\* id, and changes no state in these cases
C9_ExplicitErrorOutcomes ==
    [][\A t \in AllTestIds, v \in AllVariantIds, e \in Events :
         record_visitor_interaction(t, v, e)
         => /\ (t \in DOMAIN active_tests /\ active_tests[t].status # RUNNING)
                => last'.returned = "InvalidStateError"
            /\ (\/ t \notin DOMAIN active_tests
                \/ (/\ active_tests[t].status = RUNNING
                    /\ FindVariant(active_tests[t], v) = NotFound))
                => last'.returned = "NotFoundError"
            /\ ~record_returns(t, v)
                => UNCHANGED <<active_tests, completed_tests, learned_patterns>>]_vars

\* C10: every experiment in the registry in Planning has a traffic_allocation
\* sum within [0.99, 1.01] (create_ab_test stores none whose sum is outside)
C10_PlanningAllocationValid ==
    \A t \in DOMAIN active_tests :
        active_tests[t].status = PLANNING
        => Abs(total_allocation(active_tests[t]) - 1000) <= AllocationTolerance


\* the arithmetic mean of the values supplied for a metric
MeanOf(values) == RDiv(values.sum, <<values.n, 1>>)

\* C11: for time_on_page, bounce_rate and scroll_depth, the maintained average
\* of a variant equals the arithmetic mean of the values the successful
\* record_visitor_interaction calls supplied for that metric
C11_RunningMeanIsArithmeticMean ==
    \A t \in Known : \A i \in 1..Len(VariantsOf(TestOf(t))) :
        LET v == VariantsOf(TestOf(t))[i]
            l == log[t][v.variant_id]
        IN /\ l.time_on_page.n > 0 => v.time_on_page = MeanOf(l.time_on_page)
           /\ l.bounce_rate.n > 0 => v.bounce_rate = MeanOf(l.bounce_rate)
           /\ l.scroll_depth.n > 0 => v.scroll_depth = MeanOf(l.scroll_depth)

\* C12: an evaluated experiment is declared significant if and only if its
\* p-value is below the significance_level the experiment was created with
C12_SignificantIffBelowOwnLevel ==
    \A t \in Known :
        TestOf(t).p_value # None =>
            (TestOf(t).statistical_significance
                <=> PValueBelow(TestOf(t).p_value, TestOf(t).significance_level))

\* C13: whenever a winner is set, it is the arm whose conversions / visitors
\* is the higher of the two (the control on a tie)
C13_WinnerHasHigherRate ==
    \A t \in Known :
        LET test == TestOf(t)
            control == test.control_variant
            treatment == test.test_variants[1]
            \* conversions / visitors of the treatment above the control's
            above == control.conversions * treatment.visitors
                         < treatment.conversions * control.visitors
        IN test.winner_variant_id # None =>
               test.winner_variant_id =
                   (IF above THEN treatment.variant_id ELSE control.variant_id)

\* C14: in every reachable state an experiment has a winner only if its
\* statistical_significance is true; after a non-significant evaluation the
\* winner is null
C14_WinnerOnlyIfSignificant ==
    \A t \in Known :
        /\ TestOf(t).winner_variant_id # None => TestOf(t).statistical_significance
        /\ (TestOf(t).p_value # None /\ ~TestOf(t).statistical_significance)
               => TestOf(t).winner_variant_id = None

\* a significant evaluation has set a winner
C14_Witness ==
    \E t \in Known :
        /\ TestOf(t).winner_variant_id # None
        /\ TestOf(t).statistical_significance
        /\ TestOf(t).p_value \in {"p<0.01", "0.01<=p<0.05"}

\* the counters of every variant equal the calls that returned True
CountersMatchCalls ==
    \A t \in Known : \A i \in 1..Len(VariantsOf(TestOf(t))) :
        LET v == VariantsOf(TestOf(t))[i]
        IN /\ v.visitors = log[t][v.variant_id].calls
           /\ v.conversions = log[t][v.variant_id].converted

\* C15: under any interleaving of concurrent record_visitor_interaction
\* calls no update is lost (visitors and conversions equal the successful
\* calls and those of them that converted) and conversion_rate is
\* conversions / visitors
C15_NoLostUpdate ==
    /\ CountersMatchCalls
    /\ \A t \in Known : \A i \in 1..Len(VariantsOf(TestOf(t))) :
           LET v == VariantsOf(TestOf(t))[i]
           IN v.visitors > 0 => v.conversion_rate = Rat(v.conversions, v.visitors)

\* the LearningUpdates of the store that came from experiment t
UpdatesFrom(store, t) == {i \in 1..Len(store) : store[i].source_test_id = t}

\* C16: under any interleaving of concurrent record_visitor_interaction and
\* stop calls an experiment is completed at most once: once it is in
\* completed_tests its entry (status, ended_at, insights, recommendations)
\* never changes again, it is not active, no call is recorded on it, and the
\* store holds at most one LearningUpdate with its source_test_id
C16_CompletedAtMostOnce ==
    [][\A t \in TestIds :
          /\ Cardinality(UpdatesFrom(learned_patterns', t)) <= 1
          /\ t \in DOMAIN completed_tests =>
                /\ t \in DOMAIN completed_tests'
                /\ completed_tests'[t] = completed_tests[t]
                /\ t \notin DOMAIN active_tests'
                /\ log'[t] = log[t]
                /\ UpdatesFrom(learned_patterns', t) = UpdatesFrom(learned_patterns, t)]_vars

\* a concurrent call ran after the experiment was completed, and was refused
C16_Witness ==
    /\ "t1" \in DOMAIN completed_tests
    /\ last.op \in {"record_visitor_interaction", "stop_test"}
    /\ last.returned = "False"

\* C17: with 100 conversions in 1000 visitors on the control and 150 in 1000
\* on the treatment, the evaluation yields a p-value below 0.01, significant
\* = true and winner = the treatment
C17_ScenarioWinnerIsTreatment ==
    \A t \in DOMAIN active_tests :
        LET test == active_tests[t]
        IN (/\ last.op = "_analyze_statistical_significance"
            /\ test.control_variant.visitors = Scenario.visitors
            /\ test.control_variant.conversions = Scenario.control_conversions
            /\ test.test_variants[1].visitors = Scenario.visitors
            /\ test.test_variants[1].conversions = Scenario.treatment_conversions)
           => /\ test.p_value = "p<0.01"
              /\ test.statistical_significance
              /\ test.winner_variant_id = test.test_variants[1].variant_id

\* the part of the scenario that does not depend on conversion_rate
ScenarioIsSignificant ==
    \A t \in DOMAIN active_tests :
        last.op = "_analyze_statistical_significance"
           => active_tests[t].p_value = "p<0.01" /\ active_tests[t].statistical_significance

\* no significance evaluation can have run on the experiment: it is still
\* Planning, or it was below the minimum sample size or the minimum duration
\* up to now (Running) or up to its end (Completed)
NeverEvaluated(test) ==
    \/ test.started_at = NoTime
    \/ total_visitors(test) < test.minimum_sample_size
    \/ Days(test.started_at, IF test.status = COMPLETED THEN test.ended_at ELSE now)
           < test.minimum_duration_days

\* C18: an experiment on which no significance evaluation has run has null
\* p_value, confidence_interval, effect_size and winner_variant_id, and
\* statistical_significance false
C18_StatisticsNullBeforeEvaluation ==
    \A t \in Known :
        NeverEvaluated(TestOf(t)) =>
            /\ TestOf(t).p_value = None
            /\ TestOf(t).confidence_interval = None
            /\ TestOf(t).effect_size = None
            /\ TestOf(t).winner_variant_id = None
            /\ ~TestOf(t).statistical_significance

\* a Running experiment that has its minimum sample size and not yet its
\* minimum duration
C18_Witness ==
    \E t \in DOMAIN active_tests :
        /\ active_tests[t].status = RUNNING
        /\ total_visitors(active_tests[t]) >= active_tests[t].minimum_sample_size
        /\ Days(active_tests[t].started_at, now) < active_tests[t].minimum_duration_days
        /\ active_tests[t].p_value = None

\* C19: get_test_status changes no state; for a known id the reply's overall
\* progress is the larger of the visitor and the time progress, both between
\* 0 and 1, and the reply's counters are the stored visitors / conversions;
\* for an unknown id the reply is the not-found outcome
C19_StatusIsReadOnlySnapshot ==
    [][\A test_id \in AllTestIds :
          get_test_status(test_id) =>
              /\ UNCHANGED <<active_tests, completed_tests, learned_patterns, now>>
              /\ IF test_id \in Known
                 THEN LET reply == status_reply'
                          stored == VariantsOf(TestOf(test_id))
                      IN /\ reply.found
                         /\ ~RLess(reply.visitors, RZero) /\ ~RLess(ROne, reply.visitors)
                         /\ ~RLess(reply.time, RZero) /\ ~RLess(ROne, reply.time)
                         /\ reply.overall \in {reply.visitors, reply.time}
                         /\ ~RLess(reply.overall, reply.visitors)
                         /\ ~RLess(reply.overall, reply.time)
                         /\ Len(reply.counters) = Len(stored)
                         /\ \A i \in 1..Len(stored) :
                               /\ reply.counters[i].variant_id = stored[i].variant_id
                               /\ reply.counters[i].visitors = stored[i].visitors
                               /\ reply.counters[i].conversions = stored[i].conversions
                 ELSE ~status_reply'.found]_vars

\* a status reply on an experiment that is past its minimum sample size and
\* past its minimum duration: both progress values are clamped to 1
C19_Witness ==
    /\ last.op = "get_test_status"
    /\ status_reply.found
    /\ status_reply.overall = ROne
    /\ \E t \in Known :
          /\ total_visitors(TestOf(t)) > TestOf(t).minimum_sample_size
          /\ TestOf(t).started_at # NoTime
          /\ Days(TestOf(t).started_at, now) > TestOf(t).minimum_duration_days
          /\ status_reply.counters[1].conversions > 0

C21_PauseAndResume ==
    [][\A t \in TestIds :
          /\ (pause_test(t) /\ t \in DOMAIN active_tests
                            /\ active_tests[t].status = RUNNING)
                => (t \in DOMAIN active_tests' /\ active_tests'[t].status = PAUSED)
          /\ (resume_test(t) /\ t \in DOMAIN active_tests
                             /\ active_tests[t].status = PAUSED)
                => (t \in DOMAIN active_tests' /\ active_tests'[t].status = RUNNING)
          /\ (t \in DOMAIN active_tests /\ active_tests[t].status = PAUSED
                /\ last'.op = "record_visitor_interaction")
                => (last'.returned = "False" /\ active_tests' = active_tests)]_vars

\* the experiment has its minimum sample size and its minimum duration and
\* the analyzer judges the data of its one treatment significant
DueForCompletion(test) ==
    /\ Len(test.test_variants) = 1
    /\ total_visitors(test) >= test.minimum_sample_size
    /\ Days(test.started_at, now) >= test.minimum_duration_days
    /\ chi_square_test(test.control_variant, test.test_variants[1]).significant

\* C22: a successful record_visitor_interaction never returns leaving the
\* experiment active with its minimum sample size, its minimum duration and
\* significant data: by then the experiment is Completed, with ended_at set,
\* in completed_tests and not in active_tests
C22_SignificantMeansCompleted ==
    [][\A t \in TestIds, v \in VariantIds, e \in Events :
          (/\ last' = [op |-> "record_visitor_interaction", returned |-> "True"]
           /\ Recorded(t, v, e)
           /\ DueForCompletion(WithUpdatedVariant(active_tests[t],
                                   FindVariant(active_tests[t], v), e)))
          => /\ t \notin DOMAIN active_tests'
             /\ t \in DOMAIN completed_tests'
             /\ completed_tests'[t].status = COMPLETED
             /\ completed_tests'[t].ended_at = now]_vars

\* a record call has just completed the experiment on significant data
C22_Witness ==
    /\ last = [op |-> "record_visitor_interaction", returned |-> "True"]
    /\ \E t \in DOMAIN completed_tests :
          /\ completed_tests[t].ended_at = now
          /\ DueForCompletion(completed_tests[t])

\* C23: a record_visitor_interaction call that returns False leaves every
\* counter and derived metric of every variant unchanged
C23_FailedCallChangesNothing ==
    [][last' = [op |-> "record_visitor_interaction", returned |-> "False"]
          => UNCHANGED <<active_tests, completed_tests, learned_patterns>>]_vars

\* the insights of a list whose template (first element) is one of `templates`
InsightsOf(insights, templates) ==
    {i \in 1..Len(insights) : insights[i][1] \in templates}

\* C24: every Completed experiment has a non-empty insights list with exactly
\* one significance statement and, for each non-control variant, exactly one
\* conversion-rate lift insight
C24_CompletedHasInsights ==
    \A t \in DOMAIN completed_tests :
        LET test == completed_tests[t]
        IN /\ test.insights # <<>>
           /\ Cardinality(InsightsOf(test.insights,
                  {"Results are statistically significant",
                   "Results are not statistically significant"})) = 1
           /\ \A k \in 1..Len(test.test_variants) :
                 Cardinality({i \in InsightsOf(test.insights,
                                     {"improved conversion rate",
                                      "decreased conversion rate"}) :
                                 test.insights[i][2] = test.test_variants[k].name}) = 1

\* the learned patterns above the improvement threshold, and the most recent
\* RecentPatterns of them
Qualifying == {i \in 1..Len(learned_patterns) :
                  RLess(ImprovementThreshold, learned_patterns[i].performance_improvement)}
Recent == {i \in Qualifying : Cardinality({j \in Qualifying : j > i}) < RecentPatterns}

\* how often an insight occurs in the recent qualifying patterns
Occurrences(insight) ==
    Cardinality({<<i, k>> \in Recent \X (1..3) :
                    /\ k <= Len(learned_patterns[i].learned_insights)
                    /\ learned_patterns[i].learned_insights[k] = insight})

\* the pattern-based entries of the last reply
PatternEntries == SelectSeq(last.returned, LAMBDA entry : entry[1] = "Consider")

\* the entries are the insights with the highest occurrence counts among
\* those that occur at least min_count times: at most TopPatterns of them,
\* in non-increasing count order, each with its count
TopByCount(entries, min_count) ==
    LET candidates == {insight \in {HeadlineInsight, CtaInsight, LayoutInsight} :
                          Occurrences(insight) >= min_count}
        listed == {entries[i][2] : i \in 1..Len(entries)}
    IN /\ listed \subseteq candidates
       /\ Cardinality(listed) = Len(entries)
       /\ \A i \in 1..Len(entries) : entries[i][3] = Occurrences(entries[i][2])
       /\ \A i \in 1..Len(entries), j \in 1..Len(entries) :
             i < j => entries[i][3] >= entries[j][3]
       /\ Len(entries) = IF Cardinality(candidates) < TopPatterns
                         THEN Cardinality(candidates) ELSE TopPatterns
       /\ \A insight \in candidates \ listed : \A i \in 1..Len(entries) :
             Occurrences(insight) <= entries[i][3]

\* C25 as stated: the pattern-based entries are the top-K insights by
\* occurrence count among the most recent qualifying learning records
C25_TopKByFrequency ==
    last.op = "get_optimization_recommendations" => TopByCount(PatternEntries, 1)

\* C25 amended: the pattern-based entries are the top-K by occurrence count
\* among the insights that occur at least twice in the most recent
\* qualifying learning records
C25_TopKOfRepeated ==
    last.op = "get_optimization_recommendations" => TopByCount(PatternEntries, 2)

\* a reply that lists a repeated insight while an older qualifying record, a
\* record at the threshold and an insight seen once contribute nothing
C25_Witness ==
    /\ last.op = "get_optimization_recommendations"
    /\ Len(PatternEntries) >= 1
    /\ Qualifying # Recent
    /\ Cardinality(Qualifying) < Len(learned_patterns)
    /\ \E insight \in {HeadlineInsight, CtaInsight, LayoutInsight} :
          Occurrences(insight) = 1

\* the configuration is one start_test must refuse: allocation sum outside
\* [0.99, 1.01], minimum sample size below the floor, or minimum duration
\* below one day
InvalidConfiguration(test) ==
    \/ test.control_variant.traffic_allocation + SumAllocation(test.test_variants)
          < 1000 - AllocationTolerance
    \/ test.control_variant.traffic_allocation + SumAllocation(test.test_variants)
          > 1000 + AllocationTolerance
    \/ test.minimum_sample_size < SampleSizeFloor
    \/ test.minimum_duration_days < 1

\* C26: an experiment with an invalid configuration is never Running and its
\* started_at is never set: start_test on it fails and leaves it in Planning
C26_InvalidNeverRuns ==
    \A t \in Known :
        InvalidConfiguration(TestOf(t)) =>
            /\ TestOf(t).status # RUNNING
            /\ TestOf(t).started_at = NoTime

\* start_test has just been refused on a Planning experiment whose
\* allocations do not sum to 1
C26_Witness ==
    /\ last = [op |-> "start_test", returned |-> "False"]
    /\ \E t \in DOMAIN active_tests :
          /\ InvalidConfiguration(active_tests[t])
          /\ active_tests[t].status = PLANNING

\* C27: an experiment whose number of treatments is not one is never moved
\* out of Running by record_visitor_interaction calls: it is never Completed
\* nor in completed_tests, and its p_value and winner stay null
C27_NotOneTreatmentNeverCompletes ==
    \A t \in Known :
        Len(TestOf(t).test_variants) # 1 =>
            /\ t \notin DOMAIN completed_tests
            /\ TestOf(t).status \in {PLANNING, RUNNING}
            /\ TestOf(t).p_value = None
            /\ TestOf(t).winner_variant_id = None
            /\ ~TestOf(t).statistical_significance

\* a two-treatment experiment past both minimums, with data that separates
\* the arms completely, has just recorded a visitor and is still Running
C27_Witness ==
    /\ last = [op |-> "record_visitor_interaction", returned |-> "True"]
    /\ \E t \in DOMAIN active_tests :
          LET test == active_tests[t]
          IN /\ Len(test.test_variants) = 2
             /\ test.status = RUNNING
             /\ total_visitors(test) >= test.minimum_sample_size
             /\ Days(test.started_at, now) >= test.minimum_duration_days
             /\ test.control_variant.visitors >= 3
             /\ test.test_variants[1].conversions >= 3

\* C28: start_test, record_visitor_interaction (with its early-stop check)
\* and stop on experiment a leave every other experiment b as it is: in the
\* same registry, with the same status, timestamps, counters, statistical
\* fields, insights and recommendations
C28_OtherExperimentsUntouched ==
    [][\A a \in TestIds \cup {SecondTestId, UnknownTestId} :
          (\/ start_test(a)
           \/ stop_test(a)
           \/ \E v \in AllVariantIds, e \in Events : record_visitor_interaction(a, v, e))
          => \A b \in (TestIds \cup {SecondTestId}) \ {a} :
                /\ b \in DOMAIN active_tests
                      <=> b \in DOMAIN active_tests'
                /\ b \in DOMAIN completed_tests
                      <=> b \in DOMAIN completed_tests'
                /\ b \in DOMAIN active_tests => active_tests'[b] = active_tests[b]
                /\ b \in DOMAIN completed_tests
                      => completed_tests'[b] = completed_tests[b]]_vars

\* the first experiment has just been completed by its early-stop check while
\* the second is Running with visitors, or is completed
C28_Witness ==
    /\ last = [op |-> "record_visitor_interaction", returned |-> "True"]
    /\ "t1" \in DOMAIN completed_tests
    /\ completed_tests["t1"].ended_at = now
    /\ completed_tests["t1"].statistical_significance
    /\ \/ /\ SecondTestId \in DOMAIN active_tests
          /\ total_visitors(active_tests[SecondTestId]) >= 1
       \/ SecondTestId \in DOMAIN completed_tests

\* C29: every experiment of the manager is in exactly one of active_tests and
\* completed_tests; it is in completed_tests iff its status is Completed,
\* its ended_at is set iff its status is Completed, and its started_at is set
\* iff its status is not Planning
C29_RegistriesMatchStatus ==
    \A t \in Known :
        /\ ~(t \in DOMAIN active_tests /\ t \in DOMAIN completed_tests)
        /\ t \in DOMAIN completed_tests <=> TestOf(t).status = COMPLETED
        /\ TestOf(t).ended_at # NoTime <=> TestOf(t).status = COMPLETED
        /\ TestOf(t).started_at # NoTime <=> TestOf(t).status # PLANNING

\* C30: for every variant 0 <= conversions <= visitors, and the visitors of
\* an experiment's variants add up to the record_visitor_interaction calls on
\* it that returned True
C30_VisitorsCountSuccessfulCalls ==
    \A t \in Known :
        /\ \A i \in 1..Len(VariantsOf(TestOf(t))) :
              /\ 0 <= VariantsOf(TestOf(t))[i].conversions
              /\ VariantsOf(TestOf(t))[i].conversions <= VariantsOf(TestOf(t))[i].visitors
        /\ total_visitors(TestOf(t))
              = SumVisitors([i \in 1..Len(VariantsOf(TestOf(t))) |->
                                [visitors |-> log[t][VariantsOf(TestOf(t))[i].variant_id].calls]])

====
